---- MODULE Spec2Model ----
(***************************************************************************)
(* Generation-retry-evaluation loop of the multimodal code generator.      *)
(*                                                                         *)
(*   src/streamlitApp.py     the controller: one submitted prompt drives   *)
(*                           the retry loop of lines 109-226               *)
(*   src/model_evaluator.py  the recorder: ModelEvaluator                  *)
(*                                                                         *)
(* Text is a sequence of one-character strings.  A Python value that may   *)
(* be None, or a dict key that may be absent, is a sequence of length at   *)
(* most one: << >> is None / absent, <<v>> is the value v.                 *)
(* The evaluation log file is the sequence log; the record store itself    *)
(* is taken to work (it is created by the constructor, line 25).           *)
(***************************************************************************)
EXTENDS Integers, Sequences, FiniteSets, TLC

\* ---------------------------------------------------------------- bounds
MaxRuns == 1
MaxCalls == 5
MaxFeedbackCalls == 4
MaxGatewayCalls == 3
MaxAnalyzerCalls == 1
MaxEntries == 2
MaxSuggestions == 2
MaxCodeLen == 4
MaxConfiguredRetries == 4

\* ------------------------------------------------------ program constants
MaxRetriesAsWritten == 3
FallbackFrom == 2
TokenDivisor == 4
ExcerptLen == 400
TracebackTail == 200
MessageLen == 300

\* streamlitApp.py line 112: the configured number of attempts; the script
\* as written assigns MaxRetriesAsWritten
VARIABLE max_retries

None == << >>
Some(v) == <<v>>

\* ------------------------------------------------------------------ text
Whitespace == {" ", "\t", "\r"}

RECURSIVE SplitLines(_)
\* str.split("\n"): the pieces between newlines; always at least one piece
SplitLines(s) ==
    IF \A i \in 1..Len(s) : s[i] # "\n"
    THEN <<s>>
    ELSE LET i == CHOOSE j \in 1..Len(s) :
                      s[j] = "\n" /\ \A k \in 1..(j - 1) : s[k] # "\n"
         IN  <<SubSeq(s, 1, i - 1)>> \o SplitLines(SubSeq(s, i + 1, Len(s)))

\* bool(line.strip()): the line holds a character that is not whitespace
StripTruthy(line) == \E i \in 1..Len(line) : line[i] \notin Whitespace

RECURSIVE Strip(_)
\* line.strip(): leading and trailing whitespace removed
Strip(line) ==
    IF line = << >> THEN << >>
    ELSE IF line[1] \in Whitespace THEN Strip(Tail(line))
    ELSE IF line[Len(line)] \in Whitespace
         THEN Strip(SubSeq(line, 1, Len(line) - 1))
    ELSE line

\* needle in s, for a three-character needle
HasTriple(s, c) ==
    \E i \in 1..(Len(s) - 2) : s[i] = c /\ s[i + 1] = c /\ s[i + 2] = c

RECURSIVE SumLen(_)
SumLen(ls) == IF ls = << >> THEN 0 ELSE Len(Head(ls)) + SumLen(Tail(ls))

Max(a, b) == IF a >= b THEN a ELSE b

\* ModelEvaluator._calculate_code_metrics; avg_line_length is kept as the
\* pair <<numerator, denominator>> of the float division
CalculateCodeMetrics(code) ==
    LET lines == SplitLines(code)
        non_empty_lines == SelectSeq(lines, StripTruthy)
    IN  [ total_lines     |-> Len(lines),
          non_empty_lines |-> Len(non_empty_lines),
          character_count |-> Len(code),
          has_docstrings  |-> HasTriple(code, "\"") \/ HasTriple(code, "'"),
          has_comments    |-> \E i \in 1..Len(lines) :
                                  LET t == Strip(lines[i])
                                  IN  t # << >> /\ t[1] = "#",
          avg_line_length |-> <<SumLen(non_empty_lines),
                                Max(Len(non_empty_lines), 1)>> ]

\* s[-n:], the last n characters
TailChars(s, n) == SubSeq(s, Max(1, Len(s) - n + 1), Len(s))

\* ------------------------------------------------------ values exchanged
\* cleaned_json after lines 134-141: the stripped text when json.loads
\* failed (kind "str"), the decoded object (kind "dict": the keys present,
\* and the value under "code", which is a string or a value without a
\* length such as null), or another decoded JSON value (kind "other").
Keys == {"code", "description", "filename"}
DescriptionText == <<"d">>
FilenameText == <<"f", ".", "p", "y">>
StrVal(s) == [isStr |-> TRUE, s |-> s]
NullVal == [isStr |-> FALSE, s |-> << >>]
TextValue(t) == [kind |-> "str", text |-> t, keys |-> {}, code |-> NullVal]
DictValue(ks, c) == [kind |-> "dict", text |-> << >>, keys |-> ks, code |-> c]
OtherValue == [kind |-> "other", text |-> << >>, keys |-> {}, code |-> NullVal]

\* an exception is the text of str(e); NoExc when nothing was raised
NoExc == None
KeyErrorOf(k) == <<"KeyError", k>>
TypeErrorMsg == <<"TypeError">>
AttributeErrorMsg == <<"AttributeError">>
ValueErrorMsg == <<"Response not in desired format.">>

\* ------------------------------------------------------------ recorder
\* ModelEvaluator.__init__: the run state before any start_evaluation;
\* the dict has no "start_time" key
InitialEvaluation ==
    [ timestamp |-> None, chat_model |-> None, code_model |-> None,
      prompt |-> None, start_time |-> None, completion_time |-> None,
      tokens_generated |-> None, retry_count |-> 0, success |-> FALSE,
      error |-> None, code_metrics |-> None ]

\* start_evaluation that builds the dict of the constructor, which has no
\* start_time
StartEvaluationNoStartTime(chat, code, p, now) ==
    [ timestamp |-> Some(now), chat_model |-> Some(chat),
      code_model |-> Some(code), prompt |-> Some(p),
      start_time |-> None, completion_time |-> None,
      tokens_generated |-> None, retry_count |-> 0, success |-> FALSE,
      error |-> None, code_metrics |-> None ]

\* ModelEvaluator.start_evaluation
StartEvaluation(chat, code, p, now) ==
    [ timestamp |-> Some(now), chat_model |-> Some(chat),
      code_model |-> Some(code), prompt |-> Some(p),
      start_time |-> Some(now), completion_time |-> None,
      tokens_generated |-> None, retry_count |-> 0, success |-> FALSE,
      error |-> None, code_metrics |-> None ]

\* record_retry that also marks the run as not successful
RecordRetryMarksFailed(ev, error) ==
    [ev EXCEPT !.retry_count = @ + 1, !.error = Some(error), !.success = FALSE]

\* record_retry that stores the error and forgets to count the retry
RecordRetryUncounted(ev, error) == [ev EXCEPT !.error = Some(error)]

\* ModelEvaluator.record_retry
RecordRetry(ev, error) ==
    [ev EXCEPT !.retry_count = @ + 1, !.error = Some(error)]

\* ModelEvaluator._save_evaluation: read the log, append the run state as
\* it is now, write the log back.  The except branch of line 138 is taken
\* only when the log file cannot be read or written; the record store is
\* an external collaborator and is taken to work.
SaveEvaluation(ev, lg) == Append(lg, ev)

\* ModelEvaluator.record_success, statement by statement; the result is
\* the run state, the log and the exception that ended the call, if any
RecordSuccess(ev, lg, code_output, now) ==
    LET e1 == [ev EXCEPT !.success = TRUE]                       \* line 84
    IN  IF e1.start_time = None                                  \* line 85
        THEN [ev |-> e1, log |-> lg, exc |-> Some(KeyErrorOf("start_time"))]
        ELSE
        LET e2 == [e1 EXCEPT !.completion_time = Some(now - e1.start_time[1]),
                             !.start_time = None]
        IN  IF code_output.kind # "dict"                         \* line 88
            THEN [ev |-> e2, log |-> lg, exc |-> Some(AttributeErrorMsg)]
            ELSE
            LET c == IF "code" \in code_output.keys
                     THEN code_output.code ELSE StrVal(<< >>)
            IN  IF ~c.isStr
                THEN [ev |-> e2, log |-> lg, exc |-> Some(TypeErrorMsg)]
                ELSE
                LET e3 == [e2 EXCEPT
                             !.tokens_generated = Some(Len(c.s) \div TokenDivisor),
                             !.code_metrics = Some(CalculateCodeMetrics(c.s))]
                IN  [ev |-> e3, log |-> SaveEvaluation(e3, lg), exc |-> NoExc]

\* record_failure that reads start_time without removing it
RecordFailureKeepsStart(ev, lg, error, now) ==
    LET e1 == [ev EXCEPT !.success = FALSE]
    IN  IF e1.start_time = None
        THEN [ev |-> e1, log |-> lg, exc |-> Some(KeyErrorOf("start_time"))]
        ELSE
        LET e2 == [e1 EXCEPT !.completion_time = Some(now - e1.start_time[1]),
                             !.error = Some(error)]
        IN  [ev |-> e2, log |-> SaveEvaluation(e2, lg), exc |-> NoExc]

\* ModelEvaluator.record_failure
RecordFailure(ev, lg, error, now) ==
    LET e1 == [ev EXCEPT !.success = FALSE]                      \* line 101
    IN  IF e1.start_time = None                                  \* line 102
        THEN [ev |-> e1, log |-> lg, exc |-> Some(KeyErrorOf("start_time"))]
        ELSE
        LET e2 == [e1 EXCEPT !.completion_time = Some(now - e1.start_time[1]),
                             !.start_time = None,
                             !.error = Some(error)]
        IN  [ev |-> e2, log |-> SaveEvaluation(e2, lg), exc |-> NoExc]

\* ----------------------------------------------------------- controller
\* what one attempt receives from agent.query and output_pipeline.run:
\* the call raises with message msg, or cleaned_json is value
\* one message is longer than the excerpt a retry prompt may carry
LongMessage == [i \in 1..(ExcerptLen + 1) |-> "x"]
AgentMessages == {<<"E1">>, LongMessage}
RawTexts == {<<"t">>, <<"u", "\n", "v">>}
CodeTexts == {<< >>, <<"a", "\n", "#", "b">>}
Prompts == {"p1", "p2"}
AgentRaises(m) == [kind |-> "raise", msg |-> m, value |-> OtherValue]
AgentReturns(v) == [kind |-> "return", msg |-> << >>, value |-> v]
Outcomes ==
    {AgentRaises(m) : m \in AgentMessages}
    \cup {AgentReturns(TextValue(t)) : t \in RawTexts}
    \cup {AgentReturns(OtherValue)}
    \cup {AgentReturns(DictValue(ks, NullVal)) : ks \in SUBSET Keys}
    \cup {AgentReturns(DictValue(ks, StrVal(c))) :
              ks \in {k \in SUBSET Keys : "code" \in k}, c \in CodeTexts}

\* the class of an outcome, as the specification names them
Class(o) ==
    IF o.kind = "raise" THEN "raise"
    ELSE IF o.value.kind = "str" THEN "nonjson"
    ELSE IF o.value.kind = "other" THEN "nonobject"
    ELSE IF o.value.keys # Keys THEN "missingkey"
    ELSE IF ~o.value.code.isStr THEN "nullcode"
    ELSE "valid"

\* s[:n]
Prefix(s, n) == SubSeq(s, 1, IF Len(s) < n THEN Len(s) ELSE n)

\* line 120: the prompt of a retry
RetryPrompt(p, ctx) ==
    <<"Original request: ", p, "Previous attempt failed with the following error:">>
    \o Prefix(ctx, ExcerptLen)
    \o <<"...", "Please generate a correct solution that avoids this error to respond to original request.">>

\* traceback.format_exc(): the frames, then the exception and its message
FormatExc(msg) == <<"Traceback (most recent call last):">> \o msg

\* line 215
ErrorContext(msg) ==
    msg \o <<"\n", "\n", "Details: ">>
        \o TailChars(FormatExc(msg), TracebackTail) \o <<"...">>

Shown(what, body) == [what |-> what, body |-> body]

\* a loop that only stops on success
LoopConditionUnbounded(r, ok) == ~ok

\* line 117
LoopCondition(r, ok) == r < max_retries /\ ~ok

Raise(s, msg) == [s EXCEPT !.exc = Some(msg)]

\* a retry prompt that embeds the whole error context
BeginAttemptWholeContext(s) ==
    IF s.retries > 0
    THEN [s EXCEPT !.retry_prompt =
                       <<"Original request: ", s.prompt,
                         "Previous attempt failed with the following error:">>
                       \o s.error_context
                       \o <<"...", "Please generate a correct solution that avoids this error to respond to original request.">>,
                   !.ev = RecordRetry(s.ev, s.error_context),
                   !.retryCalls = @ + 1]
    ELSE s

\* lines 119-125
BeginAttempt(s) ==
    IF s.retries > 0
    THEN [s EXCEPT !.retry_prompt = RetryPrompt(s.prompt, s.error_context),
                   !.ev = RecordRetry(s.ev, s.error_context),
                   !.retryCalls = @ + 1]
    ELSE s

\* lines 128-141
Query(s, o) ==
    LET s1 == [s EXCEPT !.queries = @ + 1,
                        !.sent = Append(@, s.retry_prompt),
                        !.attempts = Append(@, [class |-> Class(o), msg |-> o.msg,
                                                err |-> << >>,
                                                fallback |-> FALSE])]
    IN  IF o.kind = "raise" THEN Raise(s1, o.msg) ELSE s1

\* lines 146-167
ShowResult(s, cj, now) ==
    IF cj.kind # "str"
    THEN IF cj.kind # "dict" THEN Raise(s, TypeErrorMsg)
         ELSE IF "description" \notin cj.keys
              THEN Raise(s, KeyErrorOf("description"))
         ELSE LET s1 == [s EXCEPT !.shown = @ \cup {Shown("response", DescriptionText)}]
              IN  IF "code" \notin cj.keys THEN Raise(s1, KeyErrorOf("code"))
                  ELSE IF cj.code.isStr /\ cj.code.s # << >>
                       THEN IF "filename" \notin cj.keys
                            THEN Raise(s1, KeyErrorOf("filename"))
                            ELSE [s1 EXCEPT !.shown = @ \cup {Shown("code", cj.code.s)}]
                       ELSE s1
    ELSE IF s.retries < FallbackFrom THEN Raise(s, ValueErrorMsg)
    ELSE LET r == RecordSuccess(s.ev, s.log,
                                DictValue({"code"}, StrVal(cj.text)), now)
         IN  [s EXCEPT !.shown = @ \cup {Shown("raw", cj.text)},
                       !.attempts[Len(s.attempts)].fallback = TRUE,
                       !.successCalls = @ + 1,
                       !.ev = r.ev, !.log = r.log, !.exc = r.exc]

\* lines 181-190: the write of the output file; the handler of line 190
\* subscripts the exception, which raises TypeError
WriteFile(s, cj, writeOk) ==
    IF cj.kind # "dict" \/ "filename" \notin cj.keys
    THEN Raise(s, TypeErrorMsg)
    ELSE IF ~writeOk
    THEN [s EXCEPT !.exc = Some(TypeErrorMsg), !.writeFailed = TRUE]
    ELSE [s EXCEPT !.files = @ \cup {[name |-> FilenameText,
                                      description |-> DescriptionText,
                                      code |-> cj.code.s]},
                   !.shown = @ \cup {Shown("saved", FilenameText)}]

\* lines 170-196
Finish(s, cj, writeOk, now) ==
    LET r == RecordSuccess(s.ev, s.log, cj, now)
        s1 == [s EXCEPT !.successCalls = @ + 1,
                        !.ev = r.ev, !.log = r.log, !.exc = r.exc]
    IN  IF s1.exc # NoExc THEN s1
        ELSE
        LET s2 == [s1 EXCEPT
                     !.code_ids = [i \in (DOMAIN @) \cup {Len(s.history)} |->
                                      IF i = Len(s.history) THEN s.nextId ELSE @[i]],
                     !.current_code_id = Some(s.nextId),
                     !.nextId = @ + 1,
                     !.success = TRUE]
            s3 == WriteFile(s2, cj, writeOk)
        IN  IF s3.exc # NoExc THEN s3
            ELSE [s3 EXCEPT !.shown = @ \cup {Shown("time", << >>)},
                            !.history = Append(@, cj)]

\* lines 118-196: the try block of one iteration
TryBody(s, o, writeOk, now) ==
    LET a == Query(BeginAttempt(s), o)
    IN  IF a.exc # NoExc THEN a
        ELSE LET b == ShowResult(a, o.value, now)
             IN  IF b.exc # NoExc THEN b
                 ELSE Finish(b, o.value, writeOk, now)

\* a handler that reports the error context it had before this attempt
HandlerStaleContext(s, now) ==
    LET msg == s.exc[1]
        s1 == [s EXCEPT !.retries = @ + 1,
                        !.error_context = ErrorContext(msg),
                        !.attempts[Len(s.attempts)].err = msg,
                        !.exc = NoExc]
    IN  IF s1.retries >= max_retries
        THEN LET r == RecordFailure(s1.ev, s1.log, s.error_context, now)
             IN  [s1 EXCEPT !.shown = @ \cup {Shown("failed", Prefix(msg, MessageLen))},
                            !.failureCalls = @ + 1,
                            !.ev = r.ev, !.log = r.log, !.exc = r.exc]
        ELSE s1

\* lines 198-226: the handler of the iteration; s.exc is the exception
\* caught, and the result's exc is the exception the handler lets out
Handler(s, now) ==
    LET msg == s.exc[1]
        s1 == [s EXCEPT !.retries = @ + 1,
                        !.error_context = ErrorContext(msg),
                        !.attempts[Len(s.attempts)].err = msg,
                        !.exc = NoExc]
    IN  IF s1.retries >= max_retries
        THEN LET r == RecordFailure(s1.ev, s1.log, s1.error_context, now)
             IN  [s1 EXCEPT !.shown = @ \cup {Shown("failed", Prefix(msg, MessageLen))},
                            !.failureCalls = @ + 1,
                            !.ev = r.ev, !.log = r.log, !.exc = r.exc]
        ELSE s1

\* one iteration of the loop of line 117
Iteration(s, o, writeOk, now) ==
    LET t == TryBody(s, o, writeOk, now)
    IN  IF t.exc # NoExc THEN Handler(t, now) ELSE t

\* src/model_registry.py
CHAT_MODELS == <<"mistral", "deepseek-r1">>
CODE_MODELS == <<"codellama", "deepseek-coder">>

VARIABLES
    current_evaluation,  \* ModelEvaluator.current_evaluation
    log,                 \* logs/model_evaluations.json
    pc,                  \* "idle", "loop" (in the retry loop), "done", "raised"
    prompt, retries, success, error_context, retry_prompt,  \* lines 112-116
    shown,               \* what the page shows for this submission
    history, code_ids, current_code_id, feedback_submitted, \* st.session_state
    files,               \* the output directory
    clock,               \* time.time()
    nextId,              \* the next value of uuid.uuid4()
    raised,              \* the exception that left the retry loop, if any
    runs, queries, retryCalls, successCalls, failureCalls,  \* call counts
    attempts,            \* each attempt's outcome in this run: class, message
    writeFailed,         \* the write of the output file failed in this run
    historyAtStart,      \* the history when the run started
    sent,                \* the prompts passed to agent.query in this run
    logAtStart,          \* the log when the run started
    calls, lastExc       \* direct use of the recorder: calls made, last exception

VARIABLES
    evArg,               \* the error text of the last record_retry call
    feedbacks,           \* logs/user_feedback.json
    fbReturned,          \* what the last FeedbackManager call returned
    fbCalls,             \* FeedbackManager calls made
    fbLast,              \* the arguments of the last record_feedback call
    fbFirst              \* per code_id, the first arguments submitted

VARIABLES
    chat_llm, code_llm,  \* main._chat_llm, main._code_llm: the model a handle was made for
    gwReturned,          \* what the last direct query_llm call returned
    gwRaised,            \* the exception the last direct query_llm call let out
    gwCalls,             \* direct query_llm calls made
    gwLast               \* the last direct query_llm call: arguments, what
                         \* the model did, and the handle that served it

VARIABLES
    anSuggestions,       \* what the last generate_improvement_suggestions returned
    anCategories,        \* what the last categorize_feedback returned
    anAnalysis,          \* what the last analyze_feedback returned, and the
                         \* number of gateway queries it issued
    anRaised,            \* the exception the last analyzer call let out
    anCalls,             \* analyzer calls made
    anLast               \* the last analyzer call: its arguments and what
                         \* the model did on each query

feedbackVars == <<feedbacks, fbReturned, fbCalls, fbLast, fbFirst>>
gatewayVars == <<chat_llm, code_llm, gwReturned, gwRaised, gwCalls, gwLast>>
VARIABLES
    mCode,               \* the code string handed to _calculate_code_metrics
    mMetrics             \* the metrics it returned

VARIABLES
    wKind,               \* which log two concurrent writers share
    wBase,               \* the log before either writer started
    wFile,               \* the log file: truncated by open(.., 'w'), or its entries
    wPc,                 \* per writer: "idle", "read", "opened", "done", "failed"
    wLocal,              \* per writer: the list json.load gave it
    wReturned            \* per writer: what its call returned

analyzerVars == <<anSuggestions, anCategories, anAnalysis, anRaised, anCalls,
                  anLast>>
writerVars == <<wKind, wBase, wFile, wPc, wLocal, wReturned>>
metricsVars == <<mCode, mMetrics>>
configVars == <<max_retries>>
auxVars == <<feedbackVars, gatewayVars, analyzerVars, metricsVars, configVars,
            writerVars>>

coreVars == <<current_evaluation, log, pc, prompt, retries, success, error_context,
          retry_prompt, shown, history, code_ids, current_code_id,
          feedback_submitted, files, clock, nextId, raised, runs, queries,
          retryCalls, successCalls, failureCalls, attempts, sent, logAtStart,
          calls, lastExc, writeFailed, historyAtStart>>

vars == <<coreVars, evArg, auxVars>>

sessionVars == <<history, code_ids, current_code_id, feedback_submitted, files, nextId>>

InitCore ==
    /\ evArg = None
    /\ current_evaluation = InitialEvaluation
    /\ log = << >>
    /\ pc = "idle"
    /\ prompt = "p1" /\ retries = 0 /\ success = FALSE
    /\ error_context = << >> /\ retry_prompt = << >>
    /\ shown = {}
    /\ history = << >> /\ code_ids = << >> /\ current_code_id = None
    /\ feedback_submitted = FALSE
    /\ files = {}
    /\ clock = 0 /\ nextId = 1
    /\ raised = NoExc
    /\ runs = 0 /\ queries = 0 /\ retryCalls = 0
    /\ successCalls = 0 /\ failureCalls = 0
    /\ attempts = << >> /\ sent = << >>
    /\ logAtStart = << >>
    /\ calls = 0 /\ lastExc = NoExc
    /\ writeFailed = FALSE /\ historyAtStart = << >>

\* FeedbackManager.__init__ / _ensure_log_file_exists: an empty feedback log
InitFeedback ==
    /\ feedbacks = << >>
    /\ fbReturned = None
    /\ fbCalls = 0
    /\ fbLast = None
    /\ fbFirst = {}

\* main.py lines 22-23
InitGateway ==
    /\ chat_llm = None /\ code_llm = None
    /\ gwReturned = None /\ gwRaised = NoExc
    /\ gwCalls = 0
    /\ gwLast = None

InitAnalyzer ==
    /\ anSuggestions = None /\ anCategories = None /\ anAnalysis = None
    /\ anRaised = NoExc
    /\ anCalls = 0
    /\ anLast = None

InitMetrics == mCode = << >> /\ mMetrics = None

\* line 112
InitConfig == max_retries = MaxRetriesAsWritten

Writers == {1, 2}
LogKinds == {"feedback", "evaluation"}
StoredFile(entries) == [truncated |-> FALSE, entries |-> entries]

\* no writer has started; the log holds what earlier calls stored
InitWriters ==
    /\ wKind = "feedback"
    /\ wBase = << >>
    /\ wFile = StoredFile(<< >>)
    /\ wPc = [w \in Writers |-> "idle"]
    /\ wLocal = [w \in Writers |-> << >>]
    /\ wReturned = [w \in Writers |-> None]

Init ==
    /\ InitCore /\ InitFeedback /\ InitGateway /\ InitAnalyzer /\ InitMetrics
    /\ InitConfig /\ InitWriters

\* the state one iteration works on
LoopState ==
    [ ev |-> current_evaluation, log |-> log, prompt |-> prompt,
      retries |-> retries, success |-> success,
      error_context |-> error_context, retry_prompt |-> retry_prompt,
      shown |-> shown, history |-> history, code_ids |-> code_ids,
      current_code_id |-> current_code_id, files |-> files, nextId |-> nextId,
      queries |-> queries, retryCalls |-> retryCalls,
      successCalls |-> successCalls, failureCalls |-> failureCalls,
      attempts |-> attempts, sent |-> sent, writeFailed |-> writeFailed,
      exc |-> NoExc ]

\* lines 99-116: a prompt is submitted
Submit(p) ==
    /\ pc # "loop"
    /\ runs < MaxRuns
    /\ feedback_submitted' = FALSE
    /\ clock' = clock + 1
    /\ current_evaluation' =
           StartEvaluation(CHAT_MODELS[1], CODE_MODELS[1], p, clock + 1)
    /\ prompt' = p /\ retries' = 0 /\ success' = FALSE
    /\ error_context' = << >> /\ retry_prompt' = <<p>>
    /\ shown' = {}
    /\ pc' = IF LoopCondition(0, FALSE) THEN "loop" ELSE "done"
    /\ raised' = NoExc
    /\ runs' = runs + 1
    /\ queries' = 0 /\ retryCalls' = 0 /\ successCalls' = 0 /\ failureCalls' = 0
    /\ attempts' = << >> /\ sent' = << >>
    /\ logAtStart' = log
    /\ writeFailed' = FALSE /\ historyAtStart' = history
    /\ UNCHANGED <<log, history, code_ids, current_code_id, files, nextId,
                   calls, lastExc>>
    /\ UNCHANGED <<evArg, auxVars>>

\* lines 117-226: one iteration of the retry loop, the agent and the
\* pipeline giving outcome o and the file system accepting the write or not
Attempt(o, writeOk) ==
    /\ pc = "loop"
    /\ clock' = clock + 1
    /\ \E t \in {Iteration(LoopState, o, writeOk, clock + 1)} :
           /\ current_evaluation' = t.ev
           /\ log' = t.log
           /\ retries' = t.retries
           /\ success' = t.success
           /\ error_context' = t.error_context
           /\ retry_prompt' = t.retry_prompt
           /\ shown' = t.shown
           /\ history' = t.history
           /\ code_ids' = t.code_ids
           /\ current_code_id' = t.current_code_id
           /\ files' = t.files
           /\ nextId' = t.nextId
           /\ queries' = t.queries
           /\ retryCalls' = t.retryCalls
           /\ successCalls' = t.successCalls
           /\ failureCalls' = t.failureCalls
           /\ attempts' = t.attempts
           /\ sent' = t.sent
           /\ writeFailed' = t.writeFailed
           /\ raised' = t.exc
           /\ pc' = IF t.exc # NoExc THEN "raised"
                    ELSE IF LoopCondition(t.retries, t.success) THEN "loop"
                    ELSE "done"
    /\ UNCHANGED <<prompt, feedback_submitted, runs, logAtStart, historyAtStart,
                   calls, lastExc>>
    /\ UNCHANGED <<evArg, auxVars>>

Next ==
    \/ \E p \in Prompts : Submit(p)
    \/ \E o \in Outcomes, writeOk \in BOOLEAN : Attempt(o, writeOk)

Spec == Init /\ [][Next]_vars

\* ------------------------------------- the loop under other configurations
\* the same script with line 112 assigning another number of attempts
InitConfigured ==
    /\ InitCore /\ InitFeedback /\ InitGateway /\ InitAnalyzer /\ InitMetrics
    /\ InitWriters
    /\ max_retries \in 1..MaxConfiguredRetries

ConfiguredOutcomes ==
    { AgentRaises(<<"E1">>),
      AgentReturns(TextValue(<<"t">>)),
      AgentReturns(DictValue(Keys, StrVal(<<"a", "\n", "#", "b">>))) }

NextConfigured ==
    \/ \E p \in Prompts : Submit(p)
    \/ \E o \in ConfiguredOutcomes, writeOk \in BOOLEAN : Attempt(o, writeOk)

SpecConfigured == InitConfigured /\ [][NextConfigured]_vars

\* ------------------------------------------- the recorder used directly
\* any caller of ModelEvaluator: the four public methods in any order
ErrorTexts == {<< >>, <<"E1">>, <<"E2">>}
CodeOutputs ==
    {TextValue(<<"t">>), OtherValue, DictValue({}, NullVal),
     DictValue({"code"}, NullVal)}
    \cup {DictValue({"code"}, StrVal(c)) : c \in CodeTexts}

EvStart(chat, code, p) ==
    /\ calls < MaxCalls
    /\ calls' = calls + 1
    /\ clock' = clock + 1
    /\ current_evaluation' = StartEvaluation(chat, code, p, clock + 1)
    /\ runs' = runs + 1
    /\ logAtStart' = log
    /\ retryCalls' = 0 /\ successCalls' = 0 /\ failureCalls' = 0
    /\ lastExc' = NoExc
    /\ UNCHANGED <<evArg, auxVars>>
    /\ UNCHANGED <<log, pc, prompt, retries, success, error_context,
                   retry_prompt, shown, raised, queries, attempts, sent,
                   writeFailed, historyAtStart>>
    /\ UNCHANGED sessionVars

EvRetry(e) ==
    /\ calls < MaxCalls
    /\ calls' = calls + 1
    /\ current_evaluation' = RecordRetry(current_evaluation, e)
    /\ retryCalls' = retryCalls + 1
    /\ lastExc' = NoExc
    /\ evArg' = Some(e)
    /\ UNCHANGED auxVars
    /\ UNCHANGED <<log, clock, successCalls, failureCalls, logAtStart>>
    /\ UNCHANGED <<pc, prompt, retries, success, error_context, retry_prompt,
                   shown, raised, runs, queries, attempts, sent, writeFailed,
                   historyAtStart>>
    /\ UNCHANGED sessionVars

EvSuccess(v) ==
    /\ calls < MaxCalls
    /\ calls' = calls + 1
    /\ clock' = clock + 1
    /\ \E r \in {RecordSuccess(current_evaluation, log, v, clock + 1)} :
           /\ current_evaluation' = r.ev
           /\ log' = r.log
           /\ lastExc' = r.exc
    /\ successCalls' = successCalls + 1
    /\ UNCHANGED <<evArg, auxVars>>
    /\ UNCHANGED <<retryCalls, failureCalls, logAtStart>>
    /\ UNCHANGED <<pc, prompt, retries, success, error_context, retry_prompt,
                   shown, raised, runs, queries, attempts, sent, writeFailed,
                   historyAtStart>>
    /\ UNCHANGED sessionVars

EvFailure(e) ==
    /\ calls < MaxCalls
    /\ calls' = calls + 1
    /\ clock' = clock + 1
    /\ \E r \in {RecordFailure(current_evaluation, log, e, clock + 1)} :
           /\ current_evaluation' = r.ev
           /\ log' = r.log
           /\ lastExc' = r.exc
    /\ failureCalls' = failureCalls + 1
    /\ UNCHANGED <<evArg, auxVars>>
    /\ UNCHANGED <<retryCalls, successCalls, logAtStart>>
    /\ UNCHANGED <<pc, prompt, retries, success, error_context, retry_prompt,
                   shown, raised, runs, queries, attempts, sent, writeFailed,
                   historyAtStart>>
    /\ UNCHANGED sessionVars

NextEval ==
    \/ \E i \in 1..Len(CHAT_MODELS), j \in 1..Len(CODE_MODELS), p \in Prompts :
           EvStart(CHAT_MODELS[i], CODE_MODELS[j], p)
    \/ \E e \in ErrorTexts : EvRetry(e)
    \/ \E v \in CodeOutputs : EvSuccess(v)
    \/ \E e \in ErrorTexts : EvFailure(e)

SpecEval == Init /\ [][NextEval]_vars

\* how the run ended
Outcome ==
    IF pc = "raised" THEN "raised"
    ELSE IF pc # "done" THEN "running"
    ELSE IF ~success THEN "exhausted"
    ELSE IF \E x \in shown : x.what = "raw" THEN "degraded"
    ELSE "success"

TypeOK ==
    /\ pc \in {"idle", "loop", "done", "raised"}
    /\ retries \in 0..max_retries
    /\ success \in BOOLEAN

\* ------------------------------------------------------------ properties
RunEnded == pc \in {"done", "raised"}
AllAttempts(c) == \A i \in 1..Len(attempts) : attempts[i].class = c
OneNewRecord ==
    /\ Len(log) = Len(logAtStart) + 1
    /\ SubSeq(log, 1, Len(logAtStart)) = logAtStart
LastRecord == log[Len(log)]
RawShown == \E x \in shown : x.what = "raw"

\* C1: whatever the agent and the parser give, one run issues at most
\* max_retries agent queries, and after the max_retries-th query the loop
\* is over: there is no fourth query.
C1_AtMostMaxRetriesQueries ==
    /\ queries <= max_retries
    /\ queries = max_retries => pc # "loop"

C1_Witness == RunEnded /\ queries = max_retries /\ retries = max_retries

\* C2: non-JSON text on all three attempts, the agent call succeeding each
\* time, ends the run as a degraded success: the raw text is shown,
\* record_failure is never called and nothing is raised.
C2_NonJsonThriceDegrades ==
    (RunEnded /\ AllAttempts("nonjson"))
        => /\ Outcome = "degraded"
           /\ RawShown
           /\ failureCalls = 0
           /\ raised = NoExc

\* C3: every run ends in a typed outcome and no exception leaves the
\* retry loop, exceptions of recorder calls in the handler included.
C3_NoExceptionLeavesLoop ==
    /\ raised = NoExc
    /\ pc # "raised"
    /\ pc = "done" => Outcome \in {"success", "degraded", "exhausted"}

\* C4: a run that has ended has appended exactly one record to the
\* evaluation log, never zero and never two.
C4_OneRecordPerRun == RunEnded => Len(log) = Len(logAtStart) + 1

\* C5: after a start call, record_success and record_failure calls append
\* at most one record: once a terminal call has been made, every further
\* terminal call is rejected with an exception and leaves the log as it is.
C5_SingleFinalization ==
    [][ /\ Len(log') <= Len(logAtStart') + 1
        /\ ( /\ runs >= 1 /\ runs' = runs
             /\ successCalls + failureCalls >= 1
             /\ successCalls' + failureCalls' > successCalls + failureCalls )
           => (log' = log /\ lastExc' # NoExc) ]_vars

C5_Witness ==
    /\ runs >= 1
    /\ successCalls >= 1 /\ failureCalls >= 1
    /\ Len(log) = Len(logAtStart) + 1
    /\ lastExc # NoExc

\* C6: when a run has ended, the agent queries issued are one more than
\* the record_retry calls made, and every record the run persisted has
\* retry_count equal to the number of record_retry calls.
C6_AttemptsAreOnePlusRetries ==
    RunEnded =>
        /\ queries = 1 + retryCalls
        /\ \A i \in (Len(logAtStart) + 1)..Len(log) :
               log[i].retry_count = retryCalls

C6_Witness ==
    /\ pc = "done" /\ success
    /\ retryCalls = 2 /\ queries = 3
    /\ OneNewRecord /\ LastRecord.retry_count = 2

\* C7: k non-JSON attempts (k in 0..2) followed by valid JSON with all
\* fields end the run in Success after k+1 queries, the log gaining one
\* record with success true and retry_count k.
C7_ValidAfterKFailures ==
    \A k \in 0..(max_retries - 1) :
        ( /\ RunEnded
          /\ Len(attempts) = k + 1
          /\ \A i \in 1..k : attempts[i].class = "nonjson"
          /\ attempts[k + 1].class = "valid" )
        => /\ Outcome = "success"
           /\ queries = k + 1
           /\ OneNewRecord
           /\ LastRecord.success
           /\ LastRecord.retry_count = k

\* C8: when the agent query raises on every attempt, the run makes exactly
\* max_retries attempts and ends in exhausted failure, and the log gains
\* one record with success false whose error is the non-empty error
\* context of the last attempt.
C8_AllRaiseExhausts ==
    (RunEnded /\ AllAttempts("raise"))
        => /\ Len(attempts) = max_retries
           /\ queries = max_retries
           /\ Outcome = "exhausted"
           /\ OneNewRecord
           /\ ~LastRecord.success
           /\ LastRecord.error = Some(ErrorContext(attempts[max_retries].msg))
           /\ LastRecord.error # Some(<< >>)

C8_Witness ==
    /\ RunEnded /\ AllAttempts("raise")
    /\ attempts[max_retries].msg # attempts[max_retries - 1].msg
    /\ failureCalls = 1

\* C9: valid JSON that lacks a required key is handled like non-JSON
\* output: on the last attempt it gives the degraded fallback display,
\* not an exhausted failure and not a crash.
C9_MissingKeyDegrades ==
    ( /\ RunEnded
      /\ Len(attempts) = max_retries
      /\ attempts[max_retries].class = "missingkey" )
    => /\ Outcome = "degraded"
       /\ failureCalls = 0
       /\ raised = NoExc

\* C10: a failed write of the output file after a successful parse is
\* reported locally and the run still ends as Success: retries is not
\* incremented, record_failure is not called and the artifact is appended
\* to the history.
C10_WriteFailureIsNotFatal ==
    writeFailed
        => /\ Outcome = "success"
           /\ retries = queries - 1
           /\ failureCalls = 0
           /\ Len(history) = Len(historyAtStart) + 1

\* ------------------------------------------------------- feedback store
\* src/feedback_manager.py.  The arguments of record_feedback.
CodeIds == {"abc", "xyz"}
FeedbackArgs ==
    [ rating : {1, 5}, code_id : CodeIds,
      comment : {None, Some(<< >>), Some(<<"g">>)},
      chat_model : {Some(CHAT_MODELS[1])}, code_model : {Some(CODE_MODELS[1])},
      code : {None, Some(<<"a">>)},
      prompt : {Some("p1")}, code_description : {None} ]

\* line 93: feedback_comment if feedback_comment else ""
StoredComment(c) == IF c = None THEN << >> ELSE c[1]

\* a scan that only looks at the newest entry
IsFeedbackRecordedLastOnly(fb, code_id) ==
    fb # << >> /\ fb[Len(fb)].code_id = code_id

\* FeedbackManager.is_feedback_recorded: scan the whole log
IsFeedbackRecorded(fb, code_id) ==
    \E i \in 1..Len(fb) : fb[i].code_id = code_id

\* lines 89-99
FeedbackEntry(a, now) ==
    [ timestamp |-> now, code_id |-> a.code_id, rating |-> a.rating,
      comment |-> StoredComment(a.comment), chat_model |-> a.chat_model,
      code_model |-> a.code_model, code |-> a.code, prompt |-> a.prompt,
      code_description |-> a.code_description ]

\* FeedbackManager.record_feedback: the log afterwards and the value returned
RecordFeedback(fb, a, now) ==
    IF IsFeedbackRecorded(fb, a.code_id)
    THEN [log |-> fb, ret |-> TRUE]
    ELSE [log |-> Append(fb, FeedbackEntry(a, now)), ret |-> TRUE]

FbRecord(a) ==
    /\ fbCalls < MaxFeedbackCalls
    /\ fbCalls' = fbCalls + 1
    /\ \E r \in {RecordFeedback(feedbacks, a, fbCalls + 1)} :
           /\ feedbacks' = r.log
           /\ fbReturned' = Some(r.ret)
    /\ fbLast' = Some(a)
    /\ fbFirst' = IF \E x \in fbFirst : x.code_id = a.code_id
                  THEN fbFirst ELSE fbFirst \cup {a}
    /\ UNCHANGED <<coreVars, evArg, configVars, writerVars, gatewayVars, analyzerVars, metricsVars>>

FbIsRecorded(id) ==
    /\ fbCalls < MaxFeedbackCalls
    /\ fbCalls' = fbCalls + 1
    /\ fbReturned' = Some(IsFeedbackRecorded(feedbacks, id))
    /\ fbLast' = None
    /\ UNCHANGED <<feedbacks, fbFirst>>
    /\ UNCHANGED <<coreVars, evArg, configVars, writerVars, gatewayVars, analyzerVars, metricsVars>>

NextFeedback ==
    \/ \E a \in FeedbackArgs : FbRecord(a)
    \/ \E id \in CodeIds : FbIsRecorded(id)

SpecFeedback == Init /\ [][NextFeedback]_vars

\* ------------------------------------------- the session: runs and ratings
\* streamlitApp.py lines 229-253: a rating button of the current result
\* last_result.get('code') / .get('description')
GetCode(cj) ==
    IF "code" \in cj.keys /\ cj.code.isStr THEN Some(cj.code.s) ELSE None
GetDescription(cj) ==
    IF "description" \in cj.keys THEN Some(DescriptionText) ELSE None

\* lines 238-252: the arguments handed to submit_feedback
CurrentFeedbackArgs(rating, comment) ==
    [ rating |-> rating, code_id |-> current_code_id[1], comment |-> comment,
      chat_model |-> Some(CHAT_MODELS[1]), code_model |-> Some(CODE_MODELS[1]),
      code |-> IF history # << >> THEN GetCode(history[Len(history)]) ELSE None,
      prompt |-> Some(prompt),
      code_description |-> IF history # << >>
                           THEN GetDescription(history[Len(history)]) ELSE None ]

GiveFeedback(rating, comment) ==
    /\ pc # "loop"
    /\ current_code_id # None /\ ~feedback_submitted              \* line 230
    /\ ~IsFeedbackRecorded(feedbacks, current_code_id[1])         \* line 231
    /\ clock' = clock + 1
    /\ \E r \in {RecordFeedback(feedbacks,
                                CurrentFeedbackArgs(rating, comment), clock + 1)} :
           /\ feedbacks' = r.log
           /\ fbReturned' = Some(r.ret)
           /\ feedback_submitted' = r.ret                         \* lines 57-58
    /\ UNCHANGED <<fbCalls, fbLast, fbFirst>>
    /\ UNCHANGED <<current_evaluation, log, pc, prompt, retries, success,
                   error_context, retry_prompt, shown, history, code_ids,
                   current_code_id, files, nextId, raised, runs, queries,
                   retryCalls, successCalls, failureCalls, attempts, sent,
                   logAtStart, calls, lastExc, writeFailed, historyAtStart>>
    /\ UNCHANGED <<evArg, gatewayVars, analyzerVars, metricsVars, configVars,
                   writerVars>>

SessionOutcomes ==
    { AgentRaises(<<"E1">>),
      AgentReturns(DictValue(Keys, StrVal(<< >>))),
      AgentReturns(DictValue(Keys, StrVal(<<"a", "\n", "#", "b">>))) }

NextSession ==
    \/ \E p \in Prompts : Submit(p)
    \/ \E o \in SessionOutcomes, writeOk \in BOOLEAN : Attempt(o, writeOk)
    \/ \E rating \in {1, 5}, comment \in {None, Some(<<"g">>)} :
          GiveFeedback(rating, comment)

SpecSession == Init /\ [][NextSession]_vars

\* -------------------------------------------------------- model gateway
\* src/main.py.  A decoded JSON value: its type, and the parts the callers
\* look at: the keys of an object, the value under "error", the value
\* under "suggestions", the elements of an array, the characters of a string.
NoSuggestions == [kind |-> "absent", items |-> << >>]
JStr(t) == [t |-> "str", keys |-> {}, error |-> << >>, sug |-> NoSuggestions,
            items |-> << >>, text |-> t]
JList(xs) == [t |-> "list", keys |-> {}, error |-> << >>, sug |-> NoSuggestions,
              items |-> xs, text |-> << >>]
JDict(ks, err, sg) == [t |-> "dict", keys |-> ks, error |-> err, sug |-> sg,
                       items |-> << >>, text |-> << >>]
JNumber == [t |-> "num", keys |-> {}, error |-> << >>, sug |-> NoSuggestions,
            items |-> << >>, text |-> << >>]

\* the text of a model response: its characters, and the value it encodes
\* when it is valid JSON
ValidText(chars, doc) == [chars |-> chars, valid |-> TRUE, doc |-> doc]
InvalidText(chars) == [chars |-> chars, valid |-> FALSE, doc |-> JNumber]
JsonDecodeErrorMsg == <<"Expecting value">>

\* json.loads
JsonLoads(raw) ==
    IF raw.valid THEN [ok |-> TRUE, value |-> raw.doc, msg |-> << >>]
    ELSE [ok |-> FALSE, value |-> JNumber, msg |-> JsonDecodeErrorMsg]

\* what llm.complete does: raises with message msg, or returns a response
CompleteRaises(m) == [raises |-> TRUE, msg |-> m, raw |-> InvalidText(<< >>)]
CompleteReturns(raw) == [raises |-> FALSE, msg |-> << >>, raw |-> raw]

ModelIds == {CHAT_MODELS[1], CHAT_MODELS[2], CODE_MODELS[1], CODE_MODELS[2]}
ResponseFormats == {None, Some("json"), Some("json_array")}
ConstructorErrorMsg == <<"ValidationError">>

\* lines 59-65: the value returned when the try block raised
ErrorShape(fmt, msg) ==
    IF fmt = Some("json") THEN JDict({"error"}, msg, NoSuggestions)
    ELSE IF fmt = Some("json_array") THEN JList(<< <<"Error: ">> \o msg >>)
    ELSE JStr(<<"Error: ">> \o msg)

\* main.get_llm: the two module globals afterwards, the handle returned
\* (the model it was made for) and the exception of the constructor, if any
GetLlm(chat, code, model_name, createOk) ==
    IF model_name = "codellama"
    THEN IF code = None
         THEN IF createOk
              THEN [chat |-> chat, code |-> Some(model_name),
                    llm |-> Some(model_name), exc |-> NoExc]
              ELSE [chat |-> chat, code |-> code, llm |-> None,
                    exc |-> Some(ConstructorErrorMsg)]
         ELSE [chat |-> chat, code |-> code, llm |-> code, exc |-> NoExc]
    ELSE IF chat = None
         THEN IF createOk
              THEN [chat |-> Some(model_name), code |-> code,
                    llm |-> Some(model_name), exc |-> NoExc]
              ELSE [chat |-> chat, code |-> code, llm |-> None,
                    exc |-> Some(ConstructorErrorMsg)]
         ELSE [chat |-> chat, code |-> code, llm |-> chat, exc |-> NoExc]

\* query_llm that hands back the text of a json_array response undecoded
QueryLlmArrayUndecoded(chat, code, model, fmt, c, createOk) ==
    LET g == GetLlm(chat, code, model, createOk)
    IN  IF g.exc # NoExc
        THEN [chat |-> g.chat, code |-> g.code, llm |-> g.llm,
              ret |-> None, exc |-> g.exc]
        ELSE [chat |-> g.chat, code |-> g.code, llm |-> g.llm, exc |-> NoExc,
              ret |-> Some(
                  IF c.raises THEN ErrorShape(fmt, c.msg)
                  ELSE IF fmt = Some("json")
                       THEN LET d == JsonLoads(c.raw)
                            IN  IF d.ok THEN d.value ELSE ErrorShape(fmt, d.msg)
                       ELSE JStr(c.raw.chars))]

\* main.query_llm: the globals afterwards, the handle used, and either the
\* value returned or the exception let out
QueryLlm(chat, code, model, fmt, c, createOk) ==
    LET g == GetLlm(chat, code, model, createOk)                  \* line 48
    IN  IF g.exc # NoExc
        THEN [chat |-> g.chat, code |-> g.code, llm |-> g.llm,
              ret |-> None, exc |-> g.exc]
        ELSE [chat |-> g.chat, code |-> g.code, llm |-> g.llm, exc |-> NoExc,
              ret |-> Some(
                  IF c.raises THEN ErrorShape(fmt, c.msg)         \* line 51
                  ELSE IF fmt \in {Some("json"), Some("json_array")}
                       THEN LET d == JsonLoads(c.raw)             \* lines 55, 57
                            IN  IF d.ok THEN d.value ELSE ErrorShape(fmt, d.msg)
                       ELSE JStr(c.raw.chars))]                   \* line 58

\* the responses a model gives to the gateway's direct callers
GatewayTexts ==
    { InvalidText(<<"o", "o", "p", "s">>),
      ValidText(<<"[", "]">>, JList(<< >>)),
      ValidText(<<"[", "q", "]">>, JList(<< <<"Readability">> >>)),
      ValidText(<<"{", "}">>, JDict({}, << >>, NoSuggestions)),
      ValidText(<<"7">>, JNumber) }
Completions ==
    {CompleteRaises(<<"timed out">>)} \cup {CompleteReturns(t) : t \in GatewayTexts}

GwQuery(model, fmt, c, createOk) ==
    /\ gwCalls < MaxGatewayCalls
    /\ gwCalls' = gwCalls + 1
    /\ \E r \in {QueryLlm(chat_llm, code_llm, model, fmt, c, createOk)} :
           /\ chat_llm' = r.chat
           /\ code_llm' = r.code
           /\ gwReturned' = r.ret
           /\ gwRaised' = r.exc
           /\ gwLast' = Some([model |-> model, fmt |-> fmt, completion |-> c,
                              llm |-> r.llm])
    /\ UNCHANGED <<coreVars, evArg, configVars, writerVars, feedbackVars, analyzerVars, metricsVars>>

NextGateway ==
    \E model \in ModelIds, fmt \in ResponseFormats, c \in Completions,
       createOk \in BOOLEAN : GwQuery(model, fmt, c, createOk)

SpecGateway == Init /\ [][NextGateway]_vars

\* ----------------------------------------------------- feedback analyzer
\* src/feedback_analyzer.py
AnalyzerModel == CHAT_MODELS[1]                                  \* line 14
RequiredKeys == {"category", "suggestion", "reason", "priority"} \* line 77
valid_categories == {"Quality", "Readability", "Performance", "BestPractices"}
valid_priorities == {"High", "Medium", "Low"}
Uncategorized == <<"Uncategorized">>
Placeholder ==
    [category |-> "Quality", suggestion |-> "No specific suggestions provided",
     reason |-> "The LLM response was not in the expected format",
     priority |-> "Medium"]

\* an element of the "suggestions" array the model produced: an object with
\* some of the keys, a string, or a number
SuggestionObject(ks, cat, pri) ==
    [kind |-> "dict", keys |-> ks, category |-> cat,
     suggestion |-> "use a set", reason |-> "faster lookup", priority |-> pri]
SuggestionItems ==
    { SuggestionObject(RequiredKeys, "Readability", "High"),
      SuggestionObject(RequiredKeys, "Speed", "Urgent"),
      SuggestionObject(RequiredKeys \ {"reason"}, "Performance", "Low"),
      [SuggestionObject({}, "", "") EXCEPT !.kind = "str"],
      [SuggestionObject({}, "", "") EXCEPT !.kind = "num"] }

SeqsUpTo(S, n) == UNION {[1..k -> S] : k \in 0..n}

SuggestionTexts ==
    { ValidText(<<"{", "s", "}">>,
                JDict({"suggestions"}, << >>, [kind |-> "list", items |-> its]))
        : its \in SeqsUpTo(SuggestionItems, MaxSuggestions) }
    \cup
    { ValidText(<<"{", "n", "}">>,
                JDict({"suggestions"}, << >>, [kind |-> "null", items |-> << >>])),
      ValidText(<<"{", "t", "}">>,
                JDict({"suggestions"}, << >>, [kind |-> "str", items |-> << >>])),
      ValidText(<<"{", "}">>, JDict({}, << >>, NoSuggestions)),
      ValidText(<<"[", "]">>, JList(<< >>)),
      InvalidText(<<"o", "o", "p", "s">>) }
SuggestionCompletions ==
    {CompleteRaises(<<"timed out">>)}
        \cup {CompleteReturns(t) : t \in SuggestionTexts}

\* lines 75-94: the loop over the suggestions, in order
RECURSIVE NormalizeSuggestions(_)
NormalizeSuggestions(its) ==
    IF its = << >> THEN [out |-> << >>, exc |-> NoExc]
    ELSE LET it == Head(its)
         IN  IF it.kind = "num"                       \* key in 7: TypeError
             THEN [out |-> << >>, exc |-> Some(TypeErrorMsg)]
             ELSE IF it.kind = "str" \/ ~(RequiredKeys \subseteq it.keys)
             THEN NormalizeSuggestions(Tail(its))                 \* line 78
             ELSE LET rest == NormalizeSuggestions(Tail(its))
                      n == [category |-> IF it.category \in valid_categories
                                         THEN it.category ELSE "Quality",
                            suggestion |-> it.suggestion,
                            reason |-> it.reason,
                            priority |-> IF it.priority \in valid_priorities
                                         THEN it.priority ELSE "Medium"]
                  IN  IF rest.exc # NoExc THEN rest
                      ELSE [out |-> <<n>> \o rest.out, exc |-> NoExc]

SuggestionError(chat, code, msg) ==
    [chat |-> chat, code |-> code, exc |-> NoExc,
     ret |-> Some([error |-> Some(msg), suggestions |-> << >>])]

\* generate_improvement_suggestions that returns the list as it stands
\* after the loop
GenerateImprovementSuggestionsNoPlaceholder(chat, code, src, feedback, c, createOk) ==
    IF src = << >> \/ feedback = << >>
    THEN SuggestionError(chat, code, <<"Both code and feedback are required">>)
    ELSE LET q == QueryLlm(chat, code, AnalyzerModel, Some("json"), c, createOk)
         IN  IF q.exc # NoExc
             THEN [chat |-> q.chat, code |-> q.code, exc |-> q.exc, ret |-> None]
             ELSE IF q.ret[1].t # "dict" \/ "suggestions" \notin q.ret[1].keys
             THEN SuggestionError(q.chat, q.code,
                                  <<"Invalid response format from LLM">>)
             ELSE IF q.ret[1].sug.kind = "null"
             THEN [chat |-> q.chat, code |-> q.code,
                   exc |-> Some(TypeErrorMsg), ret |-> None]
             ELSE LET n == NormalizeSuggestions(q.ret[1].sug.items)
                  IN  IF n.exc # NoExc
                      THEN [chat |-> q.chat, code |-> q.code, exc |-> n.exc,
                            ret |-> None]
                      ELSE [chat |-> q.chat, code |-> q.code, exc |-> NoExc,
                            ret |-> Some([error |-> None,
                                          suggestions |-> n.out])]

\* FeedbackAnalyzer.generate_improvement_suggestions: the gateway globals
\* afterwards and either the dict returned or the exception let out
GenerateImprovementSuggestions(chat, code, src, feedback, c, createOk) ==
    IF src = << >> \/ feedback = << >>                            \* line 47
    THEN SuggestionError(chat, code, <<"Both code and feedback are required">>)
    ELSE LET q == QueryLlm(chat, code, AnalyzerModel, Some("json"), c, createOk)
         IN  IF q.exc # NoExc
             THEN [chat |-> q.chat, code |-> q.code, exc |-> q.exc, ret |-> None]
             ELSE IF q.ret[1].t # "dict" \/ "suggestions" \notin q.ret[1].keys
             THEN SuggestionError(q.chat, q.code,                 \* line 64
                                  <<"Invalid response format from LLM">>)
             ELSE IF q.ret[1].sug.kind = "null"       \* line 75: for x in None
             THEN [chat |-> q.chat, code |-> q.code,
                   exc |-> Some(TypeErrorMsg), ret |-> None]
             ELSE LET n == NormalizeSuggestions(q.ret[1].sug.items)
                  IN  IF n.exc # NoExc
                      THEN [chat |-> q.chat, code |-> q.code, exc |-> n.exc,
                            ret |-> None]
                      ELSE [chat |-> q.chat, code |-> q.code, exc |-> NoExc,
                            ret |-> Some([error |-> None,
                                          suggestions |->
                                              IF n.out = << >>    \* line 96
                                              THEN <<Placeholder>>
                                              ELSE n.out])]

\* the feedback entries handed to categorize_feedback, with the fields it reads
\* (the i-th entry of the list carries the i-th code id: the feedback log
\* holds one entry per code id)
AnalyzerEntry(i, comment) ==
    [code_id |-> <<"id", i>>, comment |-> comment, rating |-> 5, timestamp |-> i]
EntryLists(n) ==
    { [i \in 1..n |-> AnalyzerEntry(i, cs[i])] : cs \in [1..n -> {<< >>, <<"g">>}] }
CategoryTexts ==
    { ValidText(<<"[", "q", "u", "]">>,
                JList(<< <<"Readability">>, Uncategorized >>)),
      ValidText(<<"{", "}">>, JDict({}, << >>, NoSuggestions)) }
CategoryCompletions ==
    {CompleteRaises(<<"timed out">>)}
        \cup {CompleteReturns(t) : t \in CategoryTexts}

\* lines 128-133, 135-140: the item appended under a label
CategoryItem(e) ==
    [comment |-> e.comment, rating |-> e.rating, code_id |-> e.code_id,
     timestamp |-> e.timestamp]

\* categories[label].append(item) on a defaultdict(list)
AppendUnder(cats, label, item) ==
    [l \in (DOMAIN cats) \cup {label} |->
        IF l = label
        THEN IF l \in DOMAIN cats THEN Append(cats[l], item) ELSE <<item>>
        ELSE cats[l]]

RECURSIVE AppendUnderAll(_, _, _)
AppendUnderAll(cats, labels, item) ==
    IF labels = << >> THEN cats
    ELSE AppendUnderAll(AppendUnder(cats, Head(labels), item), Tail(labels), item)

\* FeedbackAnalyzer.categorize_feedback from entry i on; outcomes[i] is what
\* the model does on the query for entry i
RECURSIVE CategorizeFrom(_, _, _, _, _)
CategorizeFrom(st, entries, outcomes, i, createOk) ==
    IF i > Len(entries) THEN st
    ELSE IF entries[i].comment = << >>                            \* line 115
    THEN CategorizeFrom(st, entries, outcomes, i + 1, createOk)
    ELSE LET q == QueryLlm(st.chat, st.code, AnalyzerModel, Some("json_array"),
                           outcomes[i], createOk)                 \* line 124
         IN  IF q.exc # NoExc
             THEN [chat |-> q.chat, code |-> q.code, exc |-> q.exc,
                   categories |-> st.categories]
             ELSE CategorizeFrom(
                    [chat |-> q.chat, code |-> q.code, exc |-> NoExc,
                     categories |->
                        IF q.ret[1].t = "list"                    \* line 126
                        THEN AppendUnderAll(st.categories, q.ret[1].items,
                                            CategoryItem(entries[i]))
                        ELSE AppendUnder(st.categories, Uncategorized,
                                         CategoryItem(entries[i]))],
                    entries, outcomes, i + 1, createOk)

CategorizeFeedback(chat, code, entries, outcomes, createOk) ==
    CategorizeFrom([chat |-> chat, code |-> code, exc |-> NoExc,
                    categories |-> << >>], entries, outcomes, 1, createOk)

\* a str.format template: literal text and replacement fields, in order
TextPiece(t) == [field |-> FALSE, name |-> t]
FieldPiece(n) == [field |-> TRUE, name |-> n]

\* prompts.py lines 10-21: the braces of the JSON example are single, so
\* str.format reads the example as a replacement field whose name is the
\* text up to the first colon
feedback_analysis_prompt ==
    << TextPiece("Analyze the following user feedback for generated code and provide insights:"),
       FieldPiece("feedback_text"),
       TextPiece("Analyze the feedback and return a JSON object with the following structure:"),
       FieldPiece("\n    \"common_themes\""),
       TextPiece("Focus on actionable insights and specific patterns in the feedback.") >>

\* template.format(**args): the text, or KeyError for a field args lacks
RECURSIVE Format(_, _)
Format(template, args) ==
    IF template = << >> THEN [text |-> << >>, exc |-> NoExc]
    ELSE LET piece == Head(template)
         IN  IF piece.field /\ piece.name \notin DOMAIN args
             THEN [text |-> << >>, exc |-> Some(KeyErrorOf(piece.name))]
             ELSE LET rest == Format(Tail(template), args)
                  IN  IF rest.exc # NoExc THEN rest
                      ELSE [text |-> (IF piece.field THEN args[piece.name]
                                      ELSE <<piece.name>>) \o rest.text,
                            exc |-> NoExc]

\* lines 27-34: the entries that carry a comment, joined
RECURSIVE FeedbackText(_)
FeedbackText(entries) ==
    IF entries = << >> THEN << >>
    ELSE IF Head(entries).comment = << >> THEN FeedbackText(Tail(entries))
    ELSE <<"Comment: ">> \o Head(entries).comment \o <<"---">>
             \o FeedbackText(Tail(entries))

\* FeedbackAnalyzer.analyze_feedback: the gateway globals afterwards, the
\* value returned or the exception let out, and the gateway queries issued
AnalyzeFeedback(chat, code, entries, c, createOk) ==
    IF entries = << >>                                            \* line 23
    THEN [chat |-> chat, code |-> code, exc |-> NoExc, queries |-> 0,
          ret |-> Some(JDict({"error"}, <<"No feedback entries to analyze">>,
                             NoSuggestions))]
    ELSE LET f == Format(feedback_analysis_prompt,                \* line 36
                         [n \in {"feedback_text"} |-> FeedbackText(entries)])
         IN  IF f.exc # NoExc
             THEN [chat |-> chat, code |-> code, exc |-> f.exc, queries |-> 0,
                   ret |-> None]
             ELSE LET q == QueryLlm(chat, code, AnalyzerModel, Some("json"),
                                    c, createOk)                  \* line 37
                  IN  [chat |-> q.chat, code |-> q.code, exc |-> q.exc,
                       queries |-> 1, ret |-> q.ret]

NoCall == [op |-> "", src |-> << >>, feedback |-> << >>,
           completion |-> CompleteRaises(<< >>),
           entries |-> << >>, outcomes |-> << >>]

AnSuggest(src, feedback, c, createOk) ==
    /\ anCalls < MaxAnalyzerCalls
    /\ anCalls' = anCalls + 1
    /\ \E r \in {GenerateImprovementSuggestions(chat_llm, code_llm, src,
                                                feedback, c, createOk)} :
           /\ chat_llm' = r.chat
           /\ code_llm' = r.code
           /\ anSuggestions' = r.ret
           /\ anRaised' = r.exc
    /\ anCategories' = None /\ anAnalysis' = None
    /\ anLast' = Some([NoCall EXCEPT !.op = "suggest", !.src = src,
                                     !.feedback = feedback, !.completion = c])
    /\ UNCHANGED <<gwReturned, gwRaised, gwCalls, gwLast>>
    /\ UNCHANGED <<coreVars, evArg, configVars, writerVars, feedbackVars, metricsVars>>

AnCategorize(entries, outcomes, createOk) ==
    /\ anCalls < MaxAnalyzerCalls
    /\ anCalls' = anCalls + 1
    /\ \E r \in {CategorizeFeedback(chat_llm, code_llm, entries, outcomes,
                                    createOk)} :
           /\ chat_llm' = r.chat
           /\ code_llm' = r.code
           /\ anCategories' = IF r.exc = NoExc THEN Some(r.categories) ELSE None
           /\ anRaised' = r.exc
    /\ anSuggestions' = None /\ anAnalysis' = None
    /\ anLast' = Some([NoCall EXCEPT !.op = "categorize", !.entries = entries,
                                     !.outcomes = outcomes])
    /\ UNCHANGED <<gwReturned, gwRaised, gwCalls, gwLast>>
    /\ UNCHANGED <<coreVars, evArg, configVars, writerVars, feedbackVars, metricsVars>>

AnAnalyze(entries, c, createOk) ==
    /\ anCalls < MaxAnalyzerCalls
    /\ anCalls' = anCalls + 1
    /\ \E r \in {AnalyzeFeedback(chat_llm, code_llm, entries, c, createOk)} :
           /\ chat_llm' = r.chat
           /\ code_llm' = r.code
           /\ anAnalysis' = Some([ret |-> r.ret, queries |-> r.queries])
           /\ anRaised' = r.exc
    /\ anSuggestions' = None /\ anCategories' = None
    /\ anLast' = Some([NoCall EXCEPT !.op = "analyze", !.entries = entries,
                                     !.completion = c])
    /\ UNCHANGED <<gwReturned, gwRaised, gwCalls, gwLast>>
    /\ UNCHANGED <<coreVars, evArg, configVars, writerVars, feedbackVars, metricsVars>>

NextAnalyzer ==
    \/ \E n \in 0..MaxEntries :
         \E entries \in EntryLists(n), c \in CategoryCompletions,
            createOk \in (IF chat_llm = None THEN BOOLEAN ELSE {TRUE}) :
              AnAnalyze(entries, c, createOk)
    \/ \E src \in {<< >>, <<"a">>}, feedback \in {<< >>, <<"g">>},
          c \in SuggestionCompletions,
          createOk \in (IF chat_llm = None THEN BOOLEAN ELSE {TRUE}) :
            AnSuggest(src, feedback, c, createOk)
    \/ \E n \in 0..MaxEntries :
         \E entries \in EntryLists(n),
            outcomes \in [1..n -> CategoryCompletions],
            createOk \in (IF chat_llm = None THEN BOOLEAN ELSE {TRUE}) :
              AnCategorize(entries, outcomes, createOk)

SpecAnalyzer == Init /\ [][NextAnalyzer]_vars

\* ------------------------------------------------------------ code metrics
\* src/model_evaluator.py, _calculate_code_metrics on arbitrary code strings
CodeChars == {"a", " ", "\n"}
CodeStrings == UNION {[1..n -> CodeChars] : n \in 0..MaxCodeLen}

\* the number of lines of a text, as str.splitlines counts them: each
\* newline ends a line, and characters after the last newline form one more
LineCount(s) ==
    Cardinality({i \in 1..Len(s) : s[i] = "\n"})
        + (IF s # << >> /\ s[Len(s)] # "\n" THEN 1 ELSE 0)

\* the number of lines holding a character that is not whitespace: the
\* positions of the first such character of each line
NonEmptyLineCount(s) ==
    Cardinality({i \in 1..Len(s) :
        /\ s[i] \notin Whitespace \cup {"\n"}
        /\ \A j \in 1..(i - 1) :
              s[j] \notin Whitespace \cup {"\n"}
                  => \E k \in (j + 1)..(i - 1) : s[k] = "\n"})

InitAnyCode ==
    /\ InitCore /\ InitFeedback /\ InitGateway /\ InitAnalyzer /\ InitConfig
    /\ InitWriters
    /\ mCode \in CodeStrings
    /\ mMetrics = None

Measure ==
    /\ mMetrics = None
    /\ mMetrics' = Some(CalculateCodeMetrics(mCode))
    /\ UNCHANGED <<mCode, coreVars, evArg, feedbackVars, gatewayVars,
                   analyzerVars, configVars, writerVars>>

NextMetrics == Measure

SpecMetrics == InitAnyCode /\ [][NextMetrics]_vars

\* ------------------------------------------------ two concurrent writers
\* feedback_manager.py lines 101-109 and model_evaluator.py lines 130-139:
\* the same cycle on one log file, run by two sessions at once.  A writer
\* stores the record named after it.
RecordOf(w) == IF w = 1 THEN "r1" ELSE "r2"
BaseLogs == {<< >>, <<"r0">>}

\* json.load(f) on the log: an emptied file is not JSON
ReadLog(file) ==
    IF file.truncated THEN [ok |-> FALSE, entries |-> << >>]
    ELSE [ok |-> TRUE, entries |-> file.entries]

\* a cycle that stores the new record alone
AppendEntryAlone(entries, rec) == <<rec>>

\* feedbacks.append(feedback_entry) / evaluations.append(self.current_evaluation)
AppendEntry(entries, rec) == Append(entries, rec)

\* what the call returns: record_feedback returns True after the dump and
\* False from its except branch; _save_evaluation returns nothing
Returned(kind, ok) == IF kind = "feedback" THEN Some(ok) ELSE None

\* open(self.log_path, 'w')
OpenForWrite(file) == [truncated |-> TRUE, entries |-> << >>]

\* json.dump(entries, f): the file holds what this writer dumped
DumpLog(entries) == StoredFile(entries)

InitTwoWriters ==
    /\ InitCore /\ InitFeedback /\ InitGateway /\ InitAnalyzer /\ InitMetrics
    /\ InitConfig
    /\ wKind \in LogKinds
    /\ wBase \in BaseLogs
    /\ wFile = StoredFile(wBase)
    /\ wPc = [w \in Writers |-> "idle"]
    /\ wLocal = [w \in Writers |-> << >>]
    /\ wReturned = [w \in Writers |-> None]

\* with open(log_path, 'r') as f: entries = json.load(f); a failure goes to
\* the except branch, which ends the call without writing
WRead(w) ==
    /\ wPc[w] = "idle"
    /\ \E r \in {ReadLog(wFile)} :
          IF r.ok
          THEN /\ wLocal' = [wLocal EXCEPT ![w] = r.entries]
               /\ wPc' = [wPc EXCEPT ![w] = "read"]
               /\ UNCHANGED wReturned
          ELSE /\ wPc' = [wPc EXCEPT ![w] = "failed"]
               /\ wReturned' = [wReturned EXCEPT ![w] = Returned(wKind, FALSE)]
               /\ UNCHANGED wLocal
    /\ UNCHANGED <<wKind, wBase, wFile>>
    /\ UNCHANGED <<coreVars, evArg, feedbackVars, gatewayVars, analyzerVars,
                   metricsVars, configVars>>

\* entries.append(record); with open(log_path, 'w') as f
WOpen(w) ==
    /\ wPc[w] = "read"
    /\ wLocal' = [wLocal EXCEPT ![w] = AppendEntry(@, RecordOf(w))]
    /\ wFile' = OpenForWrite(wFile)
    /\ wPc' = [wPc EXCEPT ![w] = "opened"]
    /\ UNCHANGED <<wKind, wBase, wReturned>>
    /\ UNCHANGED <<coreVars, evArg, feedbackVars, gatewayVars, analyzerVars,
                   metricsVars, configVars>>

\* json.dump(entries, f, indent=2), and the file is closed
WDump(w) ==
    /\ wPc[w] = "opened"
    /\ wFile' = DumpLog(wLocal[w])
    /\ wPc' = [wPc EXCEPT ![w] = "done"]
    /\ wReturned' = [wReturned EXCEPT ![w] = Returned(wKind, TRUE)]
    /\ UNCHANGED <<wKind, wBase, wLocal>>
    /\ UNCHANGED <<coreVars, evArg, feedbackVars, gatewayVars, analyzerVars,
                   metricsVars, configVars>>

NextTwoWriters == \E w \in Writers : WRead(w) \/ WOpen(w) \/ WDump(w)

SpecTwoWriters == InitTwoWriters /\ [][NextTwoWriters]_vars

\* C11: the first attempt sends the original prompt unchanged; every later
\* attempt sends a prompt that holds the original prompt and, as its error
\* excerpt, the first ExcerptLen characters at most of the error context
\* of the attempt just before it.
C11_RetryPromptCarriesLastError ==
    \A i \in 1..Len(sent) :
        IF i = 1 THEN sent[i] = <<prompt>>
        ELSE LET ctx == ErrorContext(attempts[i - 1].err)
                 excerpt == SubSeq(sent[i], 4, Len(sent[i]) - 2)
             IN  /\ sent[i][2] = prompt
                 /\ Len(excerpt) <= ExcerptLen
                 /\ excerpt = SubSeq(ctx, 1, Len(excerpt))
                 /\ Len(ctx) <= ExcerptLen => excerpt = ctx
                 /\ Len(ctx) > ExcerptLen => Len(excerpt) = ExcerptLen

C11_Witness ==
    /\ Len(sent) = max_retries
    /\ Len(ErrorContext(attempts[1].err)) > ExcerptLen
    /\ Len(ErrorContext(attempts[2].err)) < ExcerptLen
    /\ attempts[2].err # attempts[1].err

\* C12: after any sequence of record calls the store holds at most one
\* entry per code_id, and it is the first one submitted for that id; a
\* record call for an id submitted before returns true and leaves the
\* store as it is.
C12_FirstFeedbackWins ==
    [][ (fbCalls' = fbCalls + 1 /\ fbLast' # None) =>
          /\ (\E x \in fbFirst : x.code_id = fbLast'[1].code_id)
                 => (feedbacks' = feedbacks /\ fbReturned' = Some(TRUE))
          /\ \A id \in CodeIds :
                 Cardinality({i \in 1..Len(feedbacks') :
                                  feedbacks'[i].code_id = id}) <= 1
          /\ \A x \in fbFirst' :
                 \E i \in 1..Len(feedbacks') :
                     /\ feedbacks'[i].code_id = x.code_id
                     /\ feedbacks'[i].rating = x.rating
                     /\ feedbacks'[i].comment = StoredComment(x.comment)
                     /\ feedbacks'[i].code = x.code ]_vars

C12_Witness ==
    /\ fbCalls >= 3
    /\ fbLast # None
    /\ fbReturned = Some(TRUE)
    /\ Len(feedbacks) = 2
    /\ feedbacks[1].code_id = fbLast[1].code_id
    /\ feedbacks[1].rating = 5 /\ fbLast[1].rating = 1

\* C13: every query for a model id is served by a handle that was made
\* for that same model id, never by the handle of another model.
C13_HandlePerModelId ==
    (gwLast # None /\ gwLast[1].llm # None)
        => gwLast[1].llm = Some(gwLast[1].model)

\* C14: when handle acquisition or the model call fails, query_llm lets no
\* exception out and returns the error-shaped value of the requested format.
C14_FailuresBecomeErrorValues ==
    (gwLast # None /\ (gwLast[1].llm = None \/ gwLast[1].completion.raises))
        => /\ gwRaised = NoExc
           /\ gwReturned # None
           /\ LET v == gwReturned[1]
                   fmt == gwLast[1].fmt
               IN  IF fmt = Some("json")
                   THEN v.t = "dict" /\ v.keys = {"error"} /\ v.error # << >>
                   ELSE IF fmt = Some("json_array")
                   THEN v.t = "list" /\ Len(v.items) = 1
                   ELSE v.t = "str" /\ v.text # << >>

\* C15: with format json or json_array and a response that came back from
\* the model, query_llm does not raise; text that is not valid JSON gives
\* {error: message} for json and [error message] for json_array, and valid
\* JSON gives the decoded value.
C15_JsonFormatsDecodeOrReport ==
    ( /\ gwLast # None
      /\ gwLast[1].fmt \in {Some("json"), Some("json_array")}
      /\ gwLast[1].llm # None
      /\ ~gwLast[1].completion.raises )
    => /\ gwRaised = NoExc
       /\ gwReturned # None
       /\ LET v == gwReturned[1]
               raw == gwLast[1].completion.raw
           IN  IF raw.valid THEN v = raw.doc
               ELSE IF gwLast[1].fmt = Some("json")
               THEN /\ v.t = "dict" /\ v.keys = {"error"}
                    /\ v.error = JsonDecodeErrorMsg
               ELSE /\ v.t = "list"
                    /\ v.items = << <<"Error: ">> \o JsonDecodeErrorMsg >>

C15_Witness ==
    /\ gwLast # None
    /\ gwLast[1].fmt = Some("json_array")
    /\ gwLast[1].llm # None
    /\ ~gwLast[1].completion.raises
    /\ ~gwLast[1].completion.raw.valid
    /\ gwReturned # None /\ gwReturned[1].t = "list"

\* C16: in the result of categorize_feedback, every entry with a comment
\* whose categorization query failed (the model call raised) or gave a
\* value that is not a list stands under "Uncategorized" and under no
\* other label.
C16_FailedOrNonListIsUncategorized ==
    (anLast # None /\ anLast[1].op = "categorize" /\ anCategories # None)
    => LET cats == anCategories[1]
           es == anLast[1].entries
           os == anLast[1].outcomes
       IN  \A i \in 1..Len(es) :
             ( /\ es[i].comment # << >>
               /\ (os[i].raises \/ os[i].raw.doc.t # "list") )
             => /\ Uncategorized \in DOMAIN cats
                /\ \E j \in 1..Len(cats[Uncategorized]) :
                      cats[Uncategorized][j] = CategoryItem(es[i])
                /\ \A l \in (DOMAIN cats) \ {Uncategorized} :
                      \A j \in 1..Len(cats[l]) :
                         cats[l][j].code_id # es[i].code_id

\* C17: every dict returned by generate_improvement_suggestions either has
\* an error field, or has a non-empty suggestions list whose items have the
\* four fields with category and priority inside their enumerations: the
\* items of the model's list that have all four keys, in order, with
\* out-of-enum category and priority replaced by Quality and Medium, or
\* exactly the placeholder when no item has all four keys.
C17_SuggestionsAreNormalized ==
    (anLast # None /\ anLast[1].op = "suggest" /\ anSuggestions # None
        /\ anSuggestions[1].error = None)
    => LET out == anSuggestions[1].suggestions
           given == anLast[1].completion.raw.doc.sug.items
           kept == SelectSeq(given, LAMBDA it :
                       it.kind = "dict" /\ RequiredKeys \subseteq it.keys)
       IN  /\ out # << >>
           /\ \A i \in 1..Len(out) :
                 /\ out[i].category \in valid_categories
                 /\ out[i].priority \in valid_priorities
           /\ IF kept = << >> THEN out = <<Placeholder>>
              ELSE /\ Len(out) = Len(kept)
                   /\ \A i \in 1..Len(kept) :
                        /\ out[i].suggestion = kept[i].suggestion
                        /\ out[i].reason = kept[i].reason
                        /\ out[i].category =
                             IF kept[i].category \in valid_categories
                             THEN kept[i].category ELSE "Quality"
                        /\ out[i].priority =
                             IF kept[i].priority \in valid_priorities
                             THEN kept[i].priority ELSE "Medium"

C17_Witness ==
    /\ anLast # None /\ anLast[1].op = "suggest"
    /\ anSuggestions # None /\ anSuggestions[1].error = None
    /\ Len(anLast[1].completion.raw.doc.sug.items) = 2
    /\ anLast[1].completion.raw.doc.sug.items[1].category = "Speed"
    /\ anLast[1].completion.raw.doc.sug.items[2].keys # RequiredKeys
    /\ Len(anSuggestions[1].suggestions) = 1
    /\ anSuggestions[1].suggestions[1].category = "Quality"
    /\ anSuggestions[1].suggestions[1].priority = "Medium"

C17_PlaceholderWitness ==
    /\ anLast # None /\ anLast[1].op = "suggest"
    /\ anSuggestions # None /\ anSuggestions[1].error = None
    /\ Len(anLast[1].completion.raw.doc.sug.items) = 1
    /\ anSuggestions[1].suggestions = <<Placeholder>>

\* C18: a start_evaluation step leaves the run state with retry_count 0,
\* no error, success false, no completion data and a start instant later
\* than every earlier one, whatever the earlier runs left; and the record
\* persisted for a run counts only that run's retries, carries that run's
\* start data, and carries no error when the run had none.
C18_StartResetsRunState ==
    [][ /\ (runs' = runs + 1) =>
             /\ current_evaluation'.retry_count = 0
             /\ current_evaluation'.error = None
             /\ current_evaluation'.success = FALSE
             /\ current_evaluation'.completion_time = None
             /\ current_evaluation'.tokens_generated = None
             /\ current_evaluation'.code_metrics = None
             /\ current_evaluation'.start_time = Some(clock')
             /\ current_evaluation'.timestamp = Some(clock')
             /\ clock' > clock
             /\ \A i \in 1..Len(log) : log[i].timestamp # Some(clock')
        /\ (Len(log') > Len(log)) =>
             LET rec == log'[Len(log')]
             IN  /\ rec.retry_count = retryCalls'
                 /\ rec.timestamp = current_evaluation'.timestamp
                 /\ rec.prompt = current_evaluation'.prompt
                 /\ (retryCalls' = 0 /\ rec.success) => rec.error = None
      ]_vars

C18_Witness ==
    /\ runs = 2
    /\ logAtStart # << >>
    /\ logAtStart[Len(logAtStart)].retry_count > 0
    /\ logAtStart[Len(logAtStart)].error # None
    /\ ~logAtStart[Len(logAtStart)].success
    /\ Len(log) = Len(logAtStart) + 1
    /\ log[Len(log)].retry_count = 0
    /\ log[Len(log)].error = None
    /\ log[Len(log)].success

\* C19: a record_retry step adds exactly one to retry_count, sets error to
\* the text it was given, and changes neither the persisted log nor any
\* other field of the run state.
C19_RetryFrame ==
    [][ (retryCalls' = retryCalls + 1) =>
          /\ current_evaluation'.retry_count = current_evaluation.retry_count + 1
          /\ current_evaluation'.error = evArg'
          /\ evArg' # None
          /\ \A f \in (DOMAIN current_evaluation) \ {"retry_count", "error"} :
                current_evaluation'[f] = current_evaluation[f]
          /\ DOMAIN current_evaluation' = DOMAIN current_evaluation
          /\ log' = log
      ]_vars

C19_Witness ==
    /\ retryCalls = 2
    /\ current_evaluation.retry_count = 2
    /\ evArg = Some(<<"E2">>)
    /\ current_evaluation.error = Some(<<"E2">>)
    /\ current_evaluation.success
    /\ log # << >>

\* C20: for every code string, total_lines is the number of lines of the
\* string and non_empty_lines the number of its lines that hold a character
\* other than whitespace, the empty string and strings ending in a newline
\* included.
C20_LineCountsRoundTrip ==
    mMetrics # None =>
        /\ mMetrics[1].total_lines = LineCount(mCode)
        /\ mMetrics[1].non_empty_lines = NonEmptyLineCount(mCode)

C22_ConcurrentCycleLosesOnlyOverlappingUpdates ==
    (\A w \in Writers : wPc[w] = "done")
    => LET new == SubSeq(wFile.entries, Len(wBase) + 1, Len(wFile.entries))
           readInitial(w) == wLocal[w] = Append(wBase, RecordOf(w))
       IN  /\ wKind = "feedback" => \A w \in Writers : wReturned[w] = Some(TRUE)
           /\ ~wFile.truncated
           /\ SubSeq(wFile.entries, 1, Len(wBase)) = wBase
           /\ Len(new) \in {1, 2}
           /\ \A i \in 1..Len(new) : \E w \in Writers : new[i] = RecordOf(w)
           /\ Len(new) = 2 => new[1] # new[2]
           /\ Len(new) = 1 <=> \A w \in Writers : readInitial(w)

C22_Witness ==
    /\ \A w \in Writers : wPc[w] = "done"
    /\ ~wFile.truncated
    /\ Len(wFile.entries) = Len(wBase) + 1
    /\ wLocal[1] # wLocal[2]
    /\ wKind = "feedback"
    /\ \A w \in Writers : wReturned[w] = Some(TRUE)

\* C23: analyze_feedback on an empty list returns an error value and
\* issues no gateway query; on a non-empty list it issues exactly one
\* gateway query and returns a value without raising.
C23_AnalyzeQueriesOnceOrReportsEmpty ==
    (anLast # None /\ anLast[1].op = "analyze")
    => /\ anRaised = NoExc
       /\ anAnalysis # None
       /\ anAnalysis[1].ret # None
       /\ IF anLast[1].entries = << >>
          THEN /\ anAnalysis[1].queries = 0
               /\ anAnalysis[1].ret[1].keys = {"error"}
               /\ anAnalysis[1].ret[1].error # << >>
          ELSE anAnalysis[1].queries = 1

\* C24: whenever current_code_id is set, the history is not empty and
\* current_code_id is the id minted for its last position; and every
\* feedback entry stores the code and the description of the artifact at
\* the history position its code id was minted for.
C24_CurrentIdIsLastArtifact ==
    /\ current_code_id # None
         => /\ history # << >>
            /\ (Len(history) - 1) \in DOMAIN code_ids
            /\ code_ids[Len(history) - 1] = current_code_id[1]
    /\ \A i \in 1..Len(feedbacks) :
          \E k \in DOMAIN code_ids :
             /\ code_ids[k] = feedbacks[i].code_id
             /\ k + 1 <= Len(history)
             /\ feedbacks[i].code = GetCode(history[k + 1])
             /\ feedbacks[i].code_description = GetDescription(history[k + 1])

\* C25: every persisted evaluation record with success true has no error,
\* also when the run succeeded after retries; an error is stored only in
\* records with success false.
C25_SuccessRecordsCarryNoError ==
    \A i \in 1..Len(log) : log[i].success => log[i].error = None

====
